---- MODULE Spec2Model ----
(***************************************************************************)
(* LazyManager: the metadata synchronisation engine.                       *)
(*   lazymanager/git_utils.py   the four probes                            *)
(*   lazymanager/app.py         the batches (load_all_metadata,            *)
(*                              refresh_repos_metadata), the worker        *)
(*                              (fetch_repo_metadata), GitChangeHandler    *)
(*   lazymanager/config.py      atomic_write_json, the cache documents     *)
(***************************************************************************)
EXTENDS Integers, Sequences, FiniteSets, TLC

\* ------------------------------------------------------------------ bounds
\* Batches (run_worker calls) the application starts in one run.
MaxBatches == 2
\* Probes in one run that do not return the usual result: another result, or
\* an unexpected fault (an exception escaping fetch_repo_metadata).
MaxUnusual == 1
\* File-system notifications delivered to the handlers in one run.
MaxEvents == 3
\* Clock ticks in the quiescence window of the debounce timer.
WindowTicks == 2
\* write() calls json.dump needs for one document.
DocLen == 2
\* Calls of atomic_write_json in one run.
MaxSaves == 3

\* ------------------------------------------------------------ repositories
\* self.repos, in list order (spec.md scenario 1 names them).
RepoOrder == <<"repoA", "repoB">>
Repos == {RepoOrder[i] : i \in 1..Len(RepoOrder)}

\* Python's None, and a value that is not None.
None == <<>>
Some(v) == <<v>>

\* ------------------------------------------------------------- the probes
\* What one subprocess.run of the git client can do:
\*   out      exit 0, the expected non-empty output
\*   empty    exit 0, nothing on stdout
\*   fail     non-zero exit
\*   timeout  subprocess.TimeoutExpired
\*   exc      any other exception (the binary is absent: FileNotFoundError)
\* and, for the count of get_git_ahead_behind only:
\*   shape    exit 0, output that does not split into two fields
\*   nonnum   exit 0, two fields that int() rejects (ValueError)
RunOutcomes == {"out", "empty", "fail", "timeout", "exc"}
CountOutcomes == RunOutcomes \cup {"shape", "nonnum"}

\* GitResult(value, has_error); reported counts the error_callback calls.
GitResult(v, e, n) == [value |-> v, has_error |-> e, reported |-> n]

\* AheadBehindInfo(ahead, behind, has_upstream)
AheadBehindInfo(a, b, u) == [ahead |-> a, behind |-> b, has_upstream |-> u]

\* The values the client prints for a repository: its last commit time, its
\* branch and its counts against the upstream.
CommitTime == 7
BranchName == "main"
AheadCount == 2
BehindCount == 1

\* datetime.fromisoformat / datetime.isoformat: a datetime and its ISO-8601 text
\* are different values.
fromisoformat(s) == <<"datetime", s[2]>>
isoformat(d) == <<"iso", d[2]>>

get_last_commit_date(o) ==
  CASE o = "out" -> GitResult(fromisoformat(<<"iso", CommitTime>>), FALSE, 0)
    [] o = "fail" -> GitResult(None, TRUE, 1)
    [] o = "timeout" -> GitResult(None, TRUE, 0)
    [] o = "exc" -> GitResult(None, TRUE, 0)
    [] OTHER -> GitResult(None, FALSE, 0)

get_git_branch(o) ==
  CASE o = "out" -> GitResult(Some(BranchName), FALSE, 0)
    [] o = "fail" -> GitResult(None, TRUE, 1)
    [] o = "timeout" -> GitResult(None, TRUE, 0)
    [] o = "exc" -> GitResult(None, TRUE, 0)
    [] OTHER -> GitResult(None, FALSE, 0)

\* A status probe that keeps a value next to the error flag.
get_git_status_keeps_value(o) ==
  CASE o = "out" -> GitResult(Some("modified"), FALSE, 0)
    [] o = "empty" -> GitResult(Some("clean"), FALSE, 0)
    [] o = "fail" -> GitResult(Some("modified"), TRUE, 1)
    [] o = "timeout" -> GitResult(None, TRUE, 0)
    [] OTHER -> GitResult(None, TRUE, 0)

get_git_status(o) ==
  CASE o = "out" -> GitResult(Some("modified"), FALSE, 0)
    [] o = "empty" -> GitResult(Some("clean"), FALSE, 0)
    [] o = "fail" -> GitResult(None, TRUE, 1)
    [] o = "timeout" -> GitResult(None, TRUE, 0)
    [] OTHER -> GitResult(None, TRUE, 0)

\* The runs of one ahead/behind probe: the outcome of each of its five
\* invocations, were it issued (branch, remote, merge, verify, count).
AheadBehindRuns ==
  [branch : RunOutcomes, remote : RunOutcomes, merge : RunOutcomes,
   verify : RunOutcomes, count : CountOutcomes]

NoUpstream(n) ==
  GitResult(Some(AheadBehindInfo(None, None, Some(FALSE))), FALSE, n)

Raises(o) == o \in {"timeout", "exc"}

\* The invocation exited with code 0.
ExitZero(o) == o \in {"out", "empty", "shape", "nonnum"}

\* An ahead/behind probe that verifies the upstream whatever the lookups gave.
IssuedStepsEager(run) ==
  LET b == get_git_branch(run.branch) IN
  {"branch"}
    \cup (IF b.has_error \/ b.value = None THEN {}
          ELSE {"remote"}
            \cup (IF Raises(run.remote) THEN {}
                  ELSE {"merge"}
                    \cup (IF Raises(run.merge) THEN {}
                          ELSE {"verify"}
                            \cup (IF ExitZero(run.verify) THEN {"count"} ELSE {}))))

\* The invocations get_git_ahead_behind issues in a run, in statement order:
\* each is reached only when no return or raise came before it.
IssuedSteps(run) ==
  LET b == get_git_branch(run.branch) IN
  {"branch"}
    \cup (IF b.has_error \/ b.value = None THEN {}
          ELSE {"remote"}
            \cup (IF Raises(run.remote) THEN {}
                  ELSE {"merge"}
                    \cup (IF ~(ExitZero(run.remote) /\ ExitZero(run.merge)) THEN {}
                          ELSE {"verify"}
                            \cup (IF ExitZero(run.verify) THEN {"count"} ELSE {}))))

\* An ahead/behind probe that takes an ill-shaped count for a missing upstream.
get_git_ahead_behind_lenient(run) ==
  LET b == get_git_branch(run.branch) IN
  IF b.has_error \/ b.value = None THEN NoUpstream(b.reported)
  ELSE IF Raises(run.remote) THEN GitResult(None, TRUE, 1)
  ELSE IF Raises(run.merge) THEN GitResult(None, TRUE, 1)
  ELSE IF run.remote = "fail" \/ run.merge = "fail" THEN NoUpstream(1)
  ELSE IF Raises(run.verify) THEN GitResult(None, TRUE, 1)
  ELSE IF run.verify = "fail" THEN NoUpstream(1)
  ELSE CASE run.count = "out" ->
              GitResult(Some(AheadBehindInfo(Some(AheadCount), Some(BehindCount),
                                             Some(TRUE))), FALSE, 0)
         [] run.count = "fail" -> GitResult(None, TRUE, 1)
         [] Raises(run.count) -> GitResult(None, TRUE, 1)
         [] run.count = "nonnum" -> GitResult(None, TRUE, 1)
         [] OTHER -> NoUpstream(0)

\* An ahead/behind probe that takes a missing upstream for a failure.
get_git_ahead_behind_strict(run) ==
  LET b == get_git_branch(run.branch) IN
  IF b.has_error \/ b.value = None THEN NoUpstream(b.reported)
  ELSE IF Raises(run.remote) THEN GitResult(None, TRUE, 1)
  ELSE IF Raises(run.merge) THEN GitResult(None, TRUE, 1)
  ELSE IF run.remote = "fail" \/ run.merge = "fail" THEN GitResult(None, TRUE, 1)
  ELSE IF Raises(run.verify) THEN GitResult(None, TRUE, 1)
  ELSE IF run.verify = "fail" THEN NoUpstream(1)
  ELSE CASE run.count = "out" ->
              GitResult(Some(AheadBehindInfo(Some(AheadCount), Some(BehindCount),
                                             Some(TRUE))), FALSE, 0)
         [] run.count = "fail" -> GitResult(None, TRUE, 1)
         [] Raises(run.count) -> GitResult(None, TRUE, 1)
         [] run.count = "nonnum" -> GitResult(None, TRUE, 1)
         [] OTHER -> GitResult(None, TRUE, 0)

get_git_ahead_behind(run) ==
  LET b == get_git_branch(run.branch) IN
  IF b.has_error \/ b.value = None THEN NoUpstream(b.reported)
  ELSE IF Raises(run.remote) THEN GitResult(None, TRUE, 1)
  ELSE IF Raises(run.merge) THEN GitResult(None, TRUE, 1)
  ELSE IF run.remote = "fail" \/ run.merge = "fail" THEN NoUpstream(1)
  ELSE IF Raises(run.verify) THEN GitResult(None, TRUE, 1)
  ELSE IF run.verify = "fail" THEN NoUpstream(1)
  ELSE CASE run.count = "out" ->
              GitResult(Some(AheadBehindInfo(Some(AheadCount), Some(BehindCount),
                                             Some(TRUE))), FALSE, 0)
         [] run.count = "fail" -> GitResult(None, TRUE, 1)
         [] Raises(run.count) -> GitResult(None, TRUE, 1)
         [] run.count = "nonnum" -> GitResult(None, TRUE, 1)
         [] OTHER -> GitResult(None, TRUE, 0)

\* The run in which every invocation prints its output.
UsualRun ==
  [branch |-> "out", remote |-> "out", merge |-> "out", verify |-> "out",
   count |-> "out"]

\* No probe called yet. outcome: the outcome of the one invocation of a
\* commit, branch or status probe; run: those of an ahead/behind probe.
\* issued: the invocations the probe issued.
NoProbe ==
  [name |-> "none", outcome |-> "out", run |-> UsualRun,
   result |-> GitResult(None, FALSE, 0), issued |-> {}]

\* ------------------------------------------------------------------ state
VARIABLES
  mounted,          \* on_mount has run
  repos,            \* self.repos: path -> Repository
  metadata_cache,   \* self.metadata_cache: path -> entry, NoEntry when no key
  disk,             \* metadata_cache.json
  batch,            \* the batch coroutines started with run_worker
  wpc,              \* wpc[b][r]: where the worker thread of b for r stands
  unusual,          \* probes so far that did not return the usual result
  writers,          \* history: <<thread, what it wrote>>
  debounce_timer,   \* handler of r: its threading.Timer
  obs,              \* history of the watcher, per repository
  save,             \* one call of atomic_write_json and the two files it touches
  berr,             \* history: berr[b][r], a probe of that bundle had has_error
  load,             \* one call of the two load functions and the files it reads
  launch,           \* run_lazygit: where it stands, self.access_history
  probe,            \* one call of a probe: its invocations' outcomes, its result
  late_signal,      \* history: late_signal[r], the timer of r ran after the probes
                    \* of a targeted refresh of r, and no bundle of r started since
  scan,             \* one call of find_git_repos: what it was given, what it returned
  answers,          \* answers[r]: what the probes of r return while r does not change
  finished,         \* history: finished[b], the bundles of b in the order they completed
  held,             \* held[b][r]: the result get_git_ahead_behind returned, not yet all stored
  unmounted         \* on_unmount has run: the observer is stopped and joined

engineVars ==
  <<mounted, repos, metadata_cache, disk, batch, wpc, unusual, writers, berr>>
watchVars == <<debounce_timer, obs>>
otherVars == <<scan, answers, finished, late_signal, held, unmounted>>
callVars == <<load, launch, probe, otherVars>>
vars == <<engineVars, watchVars, save, callVars>>

Batches == 1..MaxBatches

\* The dirty flag of a new Repository.
NeedsRefreshDefault == FALSE

\* Repository(path, name, ...) with the dataclass defaults.
Repository(last_commit, branch, status, ahead, behind, has_upstream) ==
  [last_commit |-> last_commit, branch |-> branch, status |-> status,
   ahead |-> ahead, behind |-> behind, has_upstream |-> has_upstream,
   has_error |-> FALSE, needs_refresh |-> NeedsRefreshDefault,
   last_accessed |-> None]

\* One entry of the cache mapping, and a path the mapping has no key for.
CacheEntry(branch, status, ahead, behind, has_upstream, last_commit) ==
  [branch |-> branch, status |-> status, ahead |-> ahead, behind |-> behind,
   has_upstream |-> has_upstream, last_commit |-> last_commit]
NoEntry == [absent |-> TRUE]

EmptyCache == [r \in Repos |-> NoEntry]

\* A save that writes a value only when it is truthy.
SerializeEntryTruthy(m) ==
  CacheEntry(m.branch, m.status,
             IF m.ahead \in {None, Some(0)} THEN None ELSE m.ahead,
             IF m.behind \in {None, Some(0)} THEN None ELSE m.behind,
             IF m.has_upstream \in {None, Some(FALSE)} THEN None ELSE m.has_upstream,
             IF m.last_commit # None THEN isoformat(m.last_commit) ELSE None)

\* save_metadata_cache's document for a mapping: last_commit as ISO text.
SerializeEntry(m) ==
  CacheEntry(m.branch, m.status, m.ahead, m.behind, m.has_upstream,
             IF m.last_commit # None THEN isoformat(m.last_commit) ELSE None)

Serialize(cache) ==
  [r \in Repos |-> IF cache[r] = NoEntry THEN NoEntry ELSE SerializeEntry(cache[r])]

\* load_metadata_cache: the mapping read back from the file.
ParseEntry(m) ==
  CacheEntry(m.branch, m.status, m.ahead, m.behind, m.has_upstream,
             IF m.last_commit # None THEN fromisoformat(m.last_commit) ELSE None)

load_metadata_cache(file) ==
  IF file.kind # "document" THEN EmptyCache
  ELSE [r \in Repos |->
          IF file.doc[r] = NoEntry THEN NoEntry ELSE ParseEntry(file.doc[r])]

\* What a child of the base directory can be:
\*   file        not a directory
\*   directory   a directory without .git
\*   gitfile     a directory whose .git is a file (submodule, worktree)
\*   repository  a directory whose .git is a directory
ChildKinds == {"file", "directory", "gitfile", "repository"}

\* The base directory of the application: every child is a repository.
BaseChildren == [r \in Repos |-> "repository"]

\* A scan that takes every directory with a .git for a repository.
find_git_repos_any(children, access_history, cache) ==
  [r \in {c \in DOMAIN children : children[c] \in {"gitfile", "repository"}} |->
     [(IF cache[r] = NoEntry THEN Repository(None, None, None, None, None, None)
       ELSE Repository(cache[r].last_commit, cache[r].branch, cache[r].status,
                       cache[r].ahead, cache[r].behind, cache[r].has_upstream))
      EXCEPT !.last_accessed = access_history[r]]]

\* find_git_repos: every qualifying child, seeded from the access history and
\* the cache.
find_git_repos(children, access_history, cache) ==
  [r \in {c \in DOMAIN children : children[c] = "repository"} |->
     [(IF cache[r] = NoEntry THEN Repository(None, None, None, None, None, None)
       ELSE Repository(cache[r].last_commit, cache[r].branch, cache[r].status,
                       cache[r].ahead, cache[r].behind, cache[r].has_upstream))
      EXCEPT !.last_accessed = access_history[r]]]

\* A save_repo_to_cache that writes the entry under every key.
save_repo_to_cache_all(cache, r, repo) ==
  [q \in Repos |-> CacheEntry(repo.branch, repo.status, repo.ahead,
                              repo.behind, repo.has_upstream, repo.last_commit)]

\* A save_repo_to_cache that keys every entry by the first path.
save_repo_to_cache_first(cache, r, repo) ==
  [cache EXCEPT ![RepoOrder[1]] =
     CacheEntry(repo.branch, repo.status, repo.ahead,
                repo.behind, repo.has_upstream, repo.last_commit)]

\* save_repo_to_cache
save_repo_to_cache(cache, r, repo) ==
  [cache EXCEPT ![r] = CacheEntry(repo.branch, repo.status, repo.ahead,
                                  repo.behind, repo.has_upstream, repo.last_commit)]

\* The file: absent, or holding a document.
File(kind, doc) == [kind |-> kind, doc |-> doc]
MissingFile == File("missing", Serialize(EmptyCache))

\* A document a previous run of the application left on disk.
PreviousDocument ==
  [r \in Repos |->
     IF r = RepoOrder[1]
     THEN CacheEntry(Some(BranchName), Some("clean"), Some(0), Some(0),
                     Some(TRUE), <<"iso", CommitTime>>)
     ELSE NoEntry]

\* What a load function can find at its path:
\*   missing     no such file
\*   document    a document a save wrote
\*   malformed   not JSON, or JSON of another shape
\*   unreadable  open() raises PermissionError
\*   denied      the directory cannot be searched: stat() raises PermissionError
FileKinds == {"missing", "document", "malformed", "unreadable", "denied"}

\* cache_path.exists() / config_path.exists(), before the try block:
\* Path.exists() passes on every OSError but "no such file".
ExistsRaises(file) == file.kind = "denied"

\* self.access_history: path -> datetime, None when no key.
EmptyHistory == [r \in Repos |-> None]

\* load_access_history: the mapping read back from the file.
load_access_history(file) ==
  IF file.kind # "document" THEN EmptyHistory
  ELSE [r \in Repos |->
          IF file.doc[r] = None THEN None ELSE fromisoformat(file.doc[r])]

\* The files the load functions are given.
CacheDocs ==
  [Repos -> {NoEntry, PreviousDocument[RepoOrder[1]],
             CacheEntry(None, None, None, None, None, None)}]
CacheFiles ==
  {File(k, Serialize(EmptyCache)) : k \in FileKinds \ {"document"}}
    \cup {File("document", d) : d \in CacheDocs}
HistoryDocs == [Repos -> {None, <<"iso", CommitTime>>}]
HistoryFiles ==
  {File(k, EmptyHistory) : k \in FileKinds \ {"document"}}
    \cup {File("document", d) : d \in HistoryDocs}

\* The entries self.metadata_cache can hold for a path.
CacheEntries ==
  {NoEntry,
   CacheEntry(Some(BranchName), Some("clean"), Some(0), Some(0), Some(TRUE),
              fromisoformat(<<"iso", CommitTime>>)),
   CacheEntry(Some(BranchName), Some("modified"), None, None, Some(FALSE),
              fromisoformat(<<"iso", CommitTime>>)),
   CacheEntry(None, None, Some(AheadCount), Some(BehindCount), Some(TRUE), None),
   CacheEntry(None, None, None, None, None, None)}
CacheMappings == [Repos -> CacheEntries]

\* The access histories find_git_repos can be given.
Histories == [Repos -> {None, fromisoformat(<<"iso", CommitTime>>)}]

\* find_git_repos not called yet.
NoScan ==
  [pc |-> "idle", children |-> BaseChildren, history |-> EmptyHistory,
   cache |-> EmptyCache, result |-> [r \in {} |-> NoEntry]]

\* What the probes of every repository return when each invocation prints
\* its output.
UsualAnswers ==
  [r \in Repos |->
     [commit |-> get_last_commit_date("out"), branch |-> get_git_branch("out"),
      status |-> get_git_status("out"),
      ahead_behind |-> get_git_ahead_behind(UsualRun)]]

\* No load function called yet. saved: the mapping given to
\* save_metadata_cache before the load, when cache_pc is "reloaded".
NoLoad ==
  [cache_pc |-> "idle", cache_file |-> MissingFile, cache |-> EmptyCache,
   saved |-> EmptyCache,
   history_pc |-> "idle", history_file |-> File("missing", EmptyHistory),
   history |-> EmptyHistory]

\* run_lazygit not called yet. history: the keys of self.access_history;
\* last_accessed: the repositories whose last_accessed run_lazygit has set.
NoLaunch == [pc |-> "idle", repo |-> "", history |-> {}, last_accessed |-> {}]

NoBatch == [kind |-> "none", members |-> {}, phase |-> "free", idx |-> 0, repaints |-> 0]
\* A Timer that is not running (none yet, cancelled or finished), and one
\* started with `left` clock ticks to go.
NoTimer == [alive |-> FALSE, left |-> 0]
Timer(interval) == [alive |-> TRUE, left |-> interval]
\* events: qualifying events so far; signals: times the timer marked the
\* repository dirty; requests: repaint requests it delivered; since: ticks
\* since the last qualifying event; close: every qualifying event so far came
\* less than one window after the one before it.
\* restarted: an event found the timer part-way through its window.
\* lock_started: an event for a name with the lock-file suffix started or
\* restarted the timer.
\* paths: the watched paths the qualifying events so far came from.
NoObs ==
  [events |-> 0, signals |-> 0, requests |-> 0, since |-> 0, close |-> TRUE,
   restarted |-> FALSE, lock_started |-> FALSE, paths |-> {}]

\* A file: absent, or the first len chunks of the document of `data`, on
\* stable storage or not.
NoFile == [exists |-> FALSE, data |-> 0, len |-> 0, synced |-> TRUE]
NewFile(data) == [exists |-> TRUE, data |-> data, len |-> 0, synced |-> FALSE]
\* No call of atomic_write_json yet, and no destination document.
\* raised_at: the statement of the current call that raised, "none" when none did.
NoSave ==
  [pc |-> "idle", data |-> 0, dest |-> NoFile, temp |-> NoFile, prev |-> NoFile,
   raised_at |-> "none"]

\* No result of get_git_ahead_behind waiting to be stored. pc: the field the
\* next assignment of fetch_repo_metadata writes.
NoHeld == [pc |-> "none", res |-> GitResult(None, FALSE, 0)]

\* The application after construction, u unusual results already counted,
\* the probes answering a.
InitOver(u, a) ==
  /\ mounted = FALSE
  /\ repos = [r \in Repos |-> Repository(None, None, None, None, None, None)]
  /\ metadata_cache = EmptyCache
  /\ disk = MissingFile
  /\ batch = [b \in Batches |-> NoBatch]
  /\ wpc = [b \in Batches |-> [r \in Repos |-> "idle"]]
  /\ berr = [b \in Batches |-> [r \in Repos |-> FALSE]]
  /\ unusual = u
  /\ debounce_timer = [r \in Repos |-> NoTimer]
  /\ writers = {}
  /\ obs = [r \in Repos |-> NoObs]
  /\ save = NoSave
  /\ load = NoLoad
  /\ launch = NoLaunch
  /\ probe = NoProbe
  /\ late_signal = [r \in Repos |-> FALSE]
  /\ scan = NoScan
  /\ answers = a
  /\ finished = [b \in Batches |-> <<>>]
  /\ held = [b \in Batches |-> [r \in Repos |-> NoHeld]]
  /\ unmounted = FALSE

InitWith(u) == InitOver(u, UsualAnswers)

Init == InitWith(0)

\* ------------------------------------------------------------- the worker
\* fetch_repo_metadata, one assignment group at a time.
ResetError(repo) == [repo EXCEPT !.has_error = FALSE]

StoreCommit(repo, res) ==
  [repo EXCEPT !.last_commit = res.value,
               !.has_error = repo.has_error \/ res.has_error]

StoreBranch(repo, res) ==
  [repo EXCEPT !.branch = res.value,
               !.has_error = repo.has_error \/ res.has_error]

StoreStatus(repo, res) ==
  [repo EXCEPT !.status = res.value,
               !.has_error = repo.has_error \/ res.has_error]

\* A store that adds the counts to those the Repository already has.
StoreAheadBehindAdds(repo, res) ==
  IF res.value # None
  THEN [repo EXCEPT
          !.ahead = IF repo.ahead # None /\ res.value[1].ahead # None
                    THEN Some(repo.ahead[1] + res.value[1].ahead[1])
                    ELSE res.value[1].ahead,
          !.behind = res.value[1].behind,
          !.has_upstream = res.value[1].has_upstream,
          !.has_error = repo.has_error \/ res.has_error]
  ELSE [repo EXCEPT !.ahead = None, !.behind = None, !.has_upstream = None,
                    !.has_error = repo.has_error \/ res.has_error]

StoreAheadBehind(repo, res) ==
  IF res.value # None
  THEN [repo EXCEPT !.ahead = res.value[1].ahead,
                    !.behind = res.value[1].behind,
                    !.has_upstream = res.value[1].has_upstream,
                    !.has_error = repo.has_error \/ res.has_error]
  ELSE [repo EXCEPT !.ahead = None, !.behind = None, !.has_upstream = None,
                    !.has_error = repo.has_error \/ res.has_error]

\* The statement after the one at pc.
NextPc(pc) ==
  CASE pc = "start" -> "commit"
    [] pc = "commit" -> "branch"
    [] pc = "branch" -> "status"
    [] pc = "status" -> "ahead_behind"
    [] pc = "ahead_behind" -> "done"

Running == {"start", "commit", "branch", "status", "ahead_behind"}

\* The results each probe can return, over every outcome of its invocations.
CommitResults == {get_last_commit_date(o) : o \in RunOutcomes}
BranchResults == {get_git_branch(o) : o \in RunOutcomes}
StatusResults == {get_git_status(o) : o \in RunOutcomes}
AheadBehindResults == {get_git_ahead_behind(run) : run \in AheadBehindRuns}

\* The result of the probe at pc when every invocation prints its output.
UsualResult(pc) ==
  CASE pc = "commit" -> get_last_commit_date("out")
    [] pc = "branch" -> get_git_branch("out")
    [] pc = "status" -> get_git_status("out")
    [] pc = "ahead_behind" ->
         get_git_ahead_behind([branch |-> "out", remote |-> "out", merge |-> "out",
                               verify |-> "out", count |-> "out"])
    [] OTHER -> GitResult(None, FALSE, 0)

\* The results the probe at pc can return.
ProbeResults(pc) ==
  CASE pc = "commit" -> CommitResults
    [] pc = "branch" -> BranchResults
    [] pc = "status" -> StatusResults
    [] pc = "ahead_behind" -> AheadBehindResults
    [] OTHER -> {UsualResult(pc)}

\* A worker that gives the bundle up at the first hard-error.
FetchStepAbort(repo, pc, res) ==
  IF res.has_error
  THEN [Repository(None, None, None, None, None, None) EXCEPT
          !.has_error = TRUE, !.needs_refresh = repo.needs_refresh]
  ELSE CASE pc = "start" -> ResetError(repo)
         [] pc = "commit" -> StoreCommit(repo, res)
         [] pc = "branch" -> StoreBranch(repo, res)
         [] pc = "status" -> StoreStatus(repo, res)
         [] pc = "ahead_behind" -> StoreAheadBehind(repo, res)

\* What the statement at pc makes of the Repository, given its probe's result.
FetchStep(repo, pc, res) ==
  CASE pc = "start" -> ResetError(repo)
    [] pc = "commit" -> StoreCommit(repo, res)
    [] pc = "branch" -> StoreBranch(repo, res)
    [] pc = "status" -> StoreStatus(repo, res)
    [] pc = "ahead_behind" -> StoreAheadBehind(repo, res)

\* One statement of fetch_repo_metadata(r), on the worker thread of batch b.
WorkerStep(b, r) ==
  /\ wpc[b][r] \in Running
  /\ \E res \in ProbeResults(wpc[b][r]) :
       /\ res # UsualResult(wpc[b][r]) => unusual < MaxUnusual
       /\ unusual' = IF res # UsualResult(wpc[b][r]) THEN unusual + 1 ELSE unusual
       /\ repos' = [repos EXCEPT ![r] = FetchStep(repos[r], wpc[b][r], res)]
       /\ berr' = [berr EXCEPT ![b][r] = @ \/ res.has_error]
  /\ wpc' = [wpc EXCEPT ![b][r] = NextPc(wpc[b][r])]
  /\ writers' = writers \cup {<<"worker", "repository">>}
  /\ UNCHANGED <<mounted, metadata_cache, disk, batch, debounce_timer>>

\* An exception escapes fetch_repo_metadata: gather(return_exceptions=True)
\* keeps it as that task's result.
WorkerFault(b, r) ==
  /\ wpc[b][r] \in Running
  /\ unusual < MaxUnusual
  /\ unusual' = unusual + 1
  /\ wpc' = [wpc EXCEPT ![b][r] = "fault"]
  /\ UNCHANGED <<mounted, repos, metadata_cache, disk, batch, writers, berr, debounce_timer>>

\* ------------------------------------------------------------ the batches
FreeSlots == {b \in Batches : batch[b].kind = "none"}

\* run_worker(coroutine): the coroutine takes the first free slot and hands
\* one fetch_repo_metadata per repository to asyncio.to_thread.
StartBatch(kind, members) ==
  /\ FreeSlots # {}
  /\ LET b == CHOOSE x \in FreeSlots : \A y \in FreeSlots : x <= y IN
       /\ batch' = [batch EXCEPT ![b] = [kind |-> kind, members |-> members,
                                         phase |-> "gather", idx |-> 0,
                                         repaints |-> 0]]
       /\ wpc' = [wpc EXCEPT ![b] =
                    [r \in Repos |-> IF r \in members THEN "start" ELSE "idle"]]
       /\ berr' = [berr EXCEPT ![b] = [r \in Repos |-> FALSE]]

\* on_mount: load the cache, scan, start the bulk refresh and the watcher.
OnMount ==
  /\ ~mounted
  /\ mounted' = TRUE
  /\ metadata_cache' = load_metadata_cache(disk)
  /\ repos' = find_git_repos(BaseChildren, EmptyHistory, metadata_cache')
  /\ StartBatch("bulk", Repos)
  /\ UNCHANGED <<disk, unusual, writers, debounce_timer>>

\* action_refresh: the 'r' key.
ActionRefresh ==
  /\ mounted
  /\ LET repos_to_refresh == {r \in Repos : repos[r].needs_refresh} IN
       /\ repos_to_refresh # {}
       /\ StartBatch("targeted", repos_to_refresh)
  /\ UNCHANGED <<mounted, repos, metadata_cache, disk, unusual, writers, debounce_timer>>

\* on_data_table_row_highlighted: the cursor moves onto the row of r.
RowHighlighted(r) ==
  /\ mounted
  /\ repos[r].needs_refresh
  /\ StartBatch("targeted", {r})
  /\ UNCHANGED <<mounted, repos, metadata_cache, disk, unusual, writers, debounce_timer>>

\* The repositories of a batch in the order its loop visits them.
MemberSeq(b) == SelectSeq(RepoOrder, LAMBDA r : r \in batch[b].members)

\* await asyncio.gather(...) has returned: every task of b has ended.
Gathered(b) ==
  /\ batch[b].phase = "gather"
  /\ \A r \in batch[b].members : wpc[b][r] \in {"done", "fault"}

\* A loop that forgets to clear the dirty flag.
IntegrateRepoKeepsDirty(kind, repo) == repo

\* The body of the loop after gather, for one repository.
IntegrateRepo(kind, repo) ==
  IF kind = "targeted" THEN [repo EXCEPT !.needs_refresh = FALSE] ELSE repo

IntegrateStep(b) ==
  /\ Gathered(b)
  /\ batch[b].idx < Len(MemberSeq(b))
  /\ LET r == MemberSeq(b)[batch[b].idx + 1] IN
       /\ repos' = [repos EXCEPT ![r] = IntegrateRepo(batch[b].kind, repos[r])]
       /\ metadata_cache' = save_repo_to_cache(metadata_cache, r, repos'[r])
       /\ writers' = writers \cup
            ({<<"main", "cache">>} \cup
             IF batch[b].kind = "targeted" THEN {<<"main", "needs_refresh">>} ELSE {})
  /\ batch' = [batch EXCEPT ![b].idx = @ + 1]
  /\ UNCHANGED <<mounted, disk, wpc, unusual, berr, debounce_timer>>

\* A batch that repaints and ends as saved whether the save raised or not.
AfterSaveIgnoresFailure(bt, saved) ==
  [bt EXCEPT !.phase = "done", !.repaints = @ + 1]

\* save_metadata_cache(self.metadata_cache); self.refresh_list(), and the
\* except clause when the save raises.
AfterSave(bt, saved) ==
  IF saved THEN [bt EXCEPT !.phase = "done", !.repaints = @ + 1]
  ELSE [bt EXCEPT !.phase = "failed"]

Persist(b) ==
  /\ Gathered(b)
  /\ batch[b].idx = Len(MemberSeq(b))
  /\ \E saved \in BOOLEAN :
       /\ disk' = IF saved THEN File("document", Serialize(metadata_cache)) ELSE disk
       /\ batch' = [batch EXCEPT ![b] = AfterSave(batch[b], saved)]
  /\ UNCHANGED <<mounted, repos, metadata_cache, wpc, unusual, writers, berr, debounce_timer>>

\* ------------------------------------------------------------ the watcher
\* The file names events arrive for, under the watched paths of start_watching,
\* each as <<stem, suffix>>: HEAD, refs/heads/main, index.lock and
\* refs/heads/main.lock.
EventNames == {<<"HEAD", "">>, <<"main", "">>, <<"index", ".lock">>, <<"main", ".lock">>}
Events == [is_directory : BOOLEAN, name : EventNames]

\* The name ends with the lock-file suffix.
HasLockSuffix(name) == name[2] = ".lock"

\* The early returns of on_any_event.
Ignored(ev) ==
  \/ ev.is_directory
  \/ ev.name \in {<<"index", ".lock">>, <<"HEAD", ".lock">>, <<".git", ".lock">>}

\* A handler that leaves a running timer alone.
on_any_event_norestart(timer, ev) ==
  IF Ignored(ev) \/ timer.alive THEN timer ELSE Timer(WindowTicks)

\* A handler whose timer is one tick short.
on_any_event_short(timer, ev) ==
  IF Ignored(ev) THEN timer ELSE Timer(WindowTicks - 1)

\* on_any_event: cancel the timer and start a new one of 1.0 s.
on_any_event(timer, ev) == IF Ignored(ev) THEN timer ELSE Timer(WindowTicks)

\* The handler of r receives ev, on the observer's thread.
OnAnyEvent(r, ev) ==
  /\ mounted
  /\ debounce_timer' = [debounce_timer EXCEPT ![r] = on_any_event(@, ev)]
  /\ UNCHANGED engineVars

\* _flag_needs_refresh, on the timer's thread.
FlagNeedsRefresh(repo) == [repo EXCEPT !.needs_refresh = TRUE]

\* A targeted refresh of r is in flight: its probes have run and its loop
\* has not come to r yet.
ProbesRead(r) ==
  \E b \in Batches :
    /\ batch[b].kind = "targeted" /\ r \in batch[b].members
    /\ batch[b].phase = "gather" /\ wpc[b][r] = "done"
    /\ \A i \in 1..batch[b].idx : MemberSeq(b)[i] # r

\* The Timer of r runs _flag_needs_refresh, which ends with
\* call_from_thread(refresh_list).
TimerFires(r) ==
  /\ debounce_timer[r].alive
  /\ debounce_timer' = [debounce_timer EXCEPT ![r] = NoTimer]
  /\ repos' = [repos EXCEPT ![r] = FlagNeedsRefresh(@)]
  /\ writers' = writers \cup {<<"timer", "needs_refresh">>}
  /\ UNCHANGED <<mounted, metadata_cache, disk, batch, wpc, unusual, berr>>

\* ------------------------------------------------------- atomic_write_json
\* The complete document of `data`, durably written.
CompleteFile(data) ==
  [exists |-> TRUE, data |-> data, len |-> DocLen, synced |-> TRUE]

\* A save that opens the destination itself for writing.
OpenInPlace(sv) ==
  [sv EXCEPT !.dest = NewFile(sv.data), !.temp = NewFile(sv.data), !.pc = "dump"]

\* open(temp_path, 'w')
OpenTemp(sv) == [sv EXCEPT !.temp = NewFile(sv.data), !.pc = "dump"]
\* one write() of json.dump
WriteChunk(sv) == [sv EXCEPT !.temp.len = @ + 1]
\* f.flush(); os.fsync(f.fileno()); the file is closed
SyncTemp(sv) == [sv EXCEPT !.temp.synced = TRUE, !.pc = "replace"]
\* os.replace(temp_path, path)
ReplaceDest(sv) == [sv EXCEPT !.dest = sv.temp, !.temp = NoFile, !.pc = "returned"]
\* An except clause that cleans up and returns instead of raising.
CleanupSwallows(sv) == [sv EXCEPT !.temp = NoFile, !.pc = "returned"]

\* except Exception: unlink the temporary file if it exists, and raise
Cleanup(sv) == [sv EXCEPT !.temp = NoFile, !.pc = "raised"]

\* The statement of atomic_write_json at sv.pc, when it succeeds.
atomic_write_json(sv) ==
  CASE sv.pc = "open" -> OpenTemp(sv)
    [] sv.pc = "dump" -> IF sv.temp.len < DocLen THEN WriteChunk(sv) ELSE SyncTemp(sv)
    [] sv.pc = "replace" -> ReplaceDest(sv)
    [] sv.pc = "except" -> Cleanup(sv)

Saving == {"open", "dump", "replace", "except"}

\* The call enters atomic_write_json with the next document.
BeginSave(sv) ==
  [sv EXCEPT !.pc = "open", !.data = @ + 1, !.prev = sv.dest, !.raised_at = "none"]

\* atomic_write_json(path, data) is called with the next document.
SaveCall ==
  /\ save.pc \notin Saving
  /\ save.data < MaxSaves
  /\ save' = BeginSave(save)
  /\ UNCHANGED <<engineVars, watchVars, callVars>>

SaveStep ==
  /\ save.pc \in Saving
  /\ save' = atomic_write_json(save)
  /\ UNCHANGED <<engineVars, watchVars, callVars>>

\* The statement at pc raises (no permission, disk full, ...).
SaveRaise ==
  /\ save.pc \in {"open", "dump", "replace"}
  /\ save' = [save EXCEPT !.pc = "except", !.raised_at = save.pc]
  /\ UNCHANGED <<engineVars, watchVars, callVars>>

\* What a loss of power leaves of a file: all of it when it is on stable
\* storage, else any prefix.
AfterPowerLoss(f) ==
  IF f.synced THEN {f} ELSE {[f EXCEPT !.len = k, !.synced = TRUE] : k \in 0..f.len}

\* The process is killed during the save, with or without a loss of power.
SaveCrash ==
  /\ save.pc \in Saving
  /\ \E power \in BOOLEAN :
       IF power
       THEN \E d \in AfterPowerLoss(save.dest), t \in AfterPowerLoss(save.temp) :
              save' = [save EXCEPT !.pc = "crashed", !.dest = d, !.temp = t]
       ELSE save' = [save EXCEPT !.pc = "crashed"]
  /\ UNCHANGED <<engineVars, watchVars, callVars>>

\* ------------------------------------------------------------ run_lazygit
\* on_data_table_row_selected: run_lazygit(r) records the access and calls
\* save_access_history, which enters atomic_write_json.
RunLazygit(r) ==
  /\ mounted
  /\ launch.pc = "idle"
  /\ save.pc \notin Saving
  /\ save.data < MaxSaves
  /\ launch' = [launch EXCEPT !.pc = "saving", !.repo = r, !.history = @ \cup {r}]
  /\ save' = BeginSave(save)
  /\ UNCHANGED <<engineVars, watchVars, load, probe, otherVars>>

\* save_access_history returned: last_accessed is set, the tool runs, and
\* run_lazygit returns after refresh_list.
LaunchTool ==
  /\ launch.pc = "saving"
  /\ save.pc = "returned"
  /\ launch' = [launch EXCEPT !.pc = "idle", !.last_accessed = @ \cup {launch.repo}]
  /\ UNCHANGED <<engineVars, watchVars, save, load, probe, otherVars>>

\* save_access_history raised: run_lazygit and on_data_table_row_selected have
\* no handler, the exception leaves the message handler and the application
\* stops.
LaunchEscapes ==
  /\ launch.pc = "saving"
  /\ save.pc = "raised"
  /\ launch' = [launch EXCEPT !.pc = "escaped"]
  /\ UNCHANGED <<engineVars, watchVars, save, load, probe, otherVars>>

\* ------------------------------------------------- signals during a refresh
\* The timer of r runs; the history notes whether a targeted refresh of r had
\* run its probes and not yet cleared the flag.
SignalFires(r) ==
  /\ TimerFires(r)
  /\ late_signal' = [late_signal EXCEPT ![r] = @ \/ ProbesRead(r)]
  /\ UNCHANGED <<obs, save, load, launch, probe, scan, answers, finished, held,
                 unmounted>>

\* A batch is started by the step: the signals of its repositories are served
\* by the bundles it starts.
Served ==
  /\ late_signal' =
       [r \in Repos |->
          late_signal[r] /\ ~(\E b \in Batches : wpc[b][r] = "idle" /\ wpc'[b][r] = "start")]
  /\ UNCHANGED <<obs, save, load, launch, probe, scan, answers, finished, held,
                 unmounted>>

\* ------------------------------------- the worker, one assignment at a time
\* The assignments of fetch_repo_metadata after get_git_ahead_behind has
\* returned, in statement order.
NextField(f) ==
  CASE f = "ahead" -> "behind"
    [] f = "behind" -> "has_upstream"
    [] f = "has_upstream" -> "has_error"
    [] f = "has_error" -> "none"

\* The assignment to field f, given the result the probe returned.
AssignField(repo, f, res) ==
  CASE f = "ahead" -> [repo EXCEPT !.ahead = IF res.value # None THEN res.value[1].ahead ELSE None]
    [] f = "behind" -> [repo EXCEPT !.behind = IF res.value # None THEN res.value[1].behind ELSE None]
    [] f = "has_upstream" ->
         [repo EXCEPT !.has_upstream = IF res.value # None THEN res.value[1].has_upstream ELSE None]
    [] f = "has_error" -> [repo EXCEPT !.has_error = repo.has_error \/ res.has_error]

\* The statements of fetch_repo_metadata(r) up to the call of
\* get_git_ahead_behind, the three probes before it returning their usual
\* results.
EarlyStep(b, r) ==
  /\ wpc[b][r] \in Running \ {"ahead_behind"}
  /\ repos' = [repos EXCEPT ![r] = FetchStep(@, wpc[b][r], UsualResult(wpc[b][r]))]
  /\ wpc' = [wpc EXCEPT ![b][r] = NextPc(@)]
  /\ writers' = writers \cup {<<"worker", "repository">>}
  /\ UNCHANGED <<mounted, metadata_cache, disk, batch, unusual, berr, watchVars,
                 save, callVars>>

\* get_git_ahead_behind returns to the worker of b for r.
ProbeReturns(b, r) ==
  /\ wpc[b][r] = "ahead_behind"
  /\ held[b][r].pc = "none"
  /\ \E res \in AheadBehindResults :
       /\ res # UsualResult("ahead_behind") => unusual < MaxUnusual
       /\ unusual' = IF res # UsualResult("ahead_behind") THEN unusual + 1 ELSE unusual
       /\ held' = [held EXCEPT ![b][r] = [pc |-> "ahead", res |-> res]]
       /\ berr' = [berr EXCEPT ![b][r] = @ \/ res.has_error]
  /\ UNCHANGED <<mounted, repos, metadata_cache, disk, batch, wpc, writers, watchVars,
                 save, load, launch, probe, scan, answers, finished, late_signal,
                 unmounted>>

\* The worker of b for r executes its next assignment; after the last one
\* fetch_repo_metadata returns.
AssignStep(b, r) ==
  /\ held[b][r].pc # "none"
  /\ repos' = [repos EXCEPT ![r] = AssignField(@, held[b][r].pc, held[b][r].res)]
  /\ held' = [held EXCEPT ![b][r] = IF @.pc = "has_error" THEN NoHeld
                                     ELSE [@ EXCEPT !.pc = NextField(@)]]
  /\ wpc' = [wpc EXCEPT ![b][r] = IF held[b][r].pc = "has_error" THEN "done" ELSE @]
  /\ writers' = writers \cup {<<"worker", "repository">>}
  /\ UNCHANGED <<mounted, metadata_cache, disk, batch, unusual, berr, watchVars,
                 save, load, launch, probe, scan, answers, finished, late_signal,
                 unmounted>>

\* ----------------------------------------------------------------- the scan
\* find_git_repos(base_path, access_history, metadata_cache) over a base
\* directory with the children ch.
ScanBase(ch, h, c) ==
  /\ scan.pc = "idle"
  /\ scan' = [pc |-> "done", children |-> ch, history |-> h, cache |-> c,
              result |-> find_git_repos(ch, h, c)]
  /\ UNCHANGED <<engineVars, watchVars, save, load, launch, probe, answers, finished,
                 late_signal, held, unmounted>>

\* ------------------------------------------- refreshes of unchanged repositories
\* reload_metadata_and_refresh: load_all_metadata is started again.
ReloadMetadata ==
  /\ mounted
  /\ StartBatch("bulk", Repos)
  /\ UNCHANGED <<mounted, repos, metadata_cache, disk, unusual, writers, debounce_timer>>

\* One statement of fetch_repo_metadata(r), on the worker thread of batch b,
\* its probe returning what it returns for r as long as r does not change.
AnsweredStep(b, r) ==
  /\ wpc[b][r] \in Running
  /\ LET pc == wpc[b][r]
         res == IF pc = "start" THEN UsualResult(pc) ELSE answers[r][pc]
     IN /\ repos' = [repos EXCEPT ![r] = FetchStep(repos[r], pc, res)]
        /\ berr' = [berr EXCEPT ![b][r] = @ \/ res.has_error]
        /\ wpc' = [wpc EXCEPT ![b][r] = NextPc(pc)]
        /\ finished' = IF NextPc(pc) = "done"
                       THEN [finished EXCEPT ![b] = Append(@, r)]
                       ELSE finished
  /\ writers' = writers \cup {<<"worker", "repository">>}
  /\ UNCHANGED <<mounted, metadata_cache, disk, batch, unusual,
                 watchVars, save, load, launch, probe, scan, answers, late_signal,
                 held, unmounted>>

\* ------------------------------------------------------ the probes, called
\* get_last_commit_date(repo.path, self.log_error), its invocation doing o.
ProbeCommit(o) ==
  /\ probe.name = "none"
  /\ probe' = [probe EXCEPT !.name = "commit", !.outcome = o,
                            !.result = get_last_commit_date(o)]
  /\ UNCHANGED <<engineVars, watchVars, save, load, launch, otherVars>>

ProbeBranch(o) ==
  /\ probe.name = "none"
  /\ probe' = [probe EXCEPT !.name = "branch", !.outcome = o,
                            !.result = get_git_branch(o)]
  /\ UNCHANGED <<engineVars, watchVars, save, load, launch, otherVars>>

ProbeStatus(o) ==
  /\ probe.name = "none"
  /\ probe' = [probe EXCEPT !.name = "status", !.outcome = o,
                            !.result = get_git_status(o)]
  /\ UNCHANGED <<engineVars, watchVars, save, load, launch, otherVars>>

ProbeAheadBehind(run) ==
  /\ probe.name = "none"
  /\ probe' = [probe EXCEPT !.name = "ahead_behind", !.run = run,
                            !.result = get_git_ahead_behind(run),
                            !.issued = IssuedSteps(run)]
  /\ UNCHANGED <<engineVars, watchVars, save, load, launch, otherVars>>

\* ------------------------------------------------------ the load functions
\* load_metadata_cache() with cf at the cache path.
LoadMetadataCache(cf) ==
  /\ load' = [load EXCEPT
                !.cache_file = cf,
                !.cache_pc = IF ExistsRaises(cf) THEN "raised" ELSE "returned",
                !.cache = IF ExistsRaises(cf) THEN EmptyCache
                          ELSE load_metadata_cache(cf)]
  /\ UNCHANGED <<engineVars, watchVars, save, launch, probe, otherVars>>

\* save_metadata_cache(m) returns, then load_metadata_cache() reads the file.
SaveThenLoad(m) ==
  /\ load' = [load EXCEPT
                !.saved = m,
                !.cache_file = File("document", Serialize(m)),
                !.cache_pc = "reloaded",
                !.cache = load_metadata_cache(File("document", Serialize(m)))]
  /\ UNCHANGED <<engineVars, watchVars, save, launch, probe, otherVars>>

\* load_access_history() with hf at the history path.
LoadAccessHistory(hf) ==
  /\ load' = [load EXCEPT
                !.history_file = hf,
                !.history_pc = IF ExistsRaises(hf) THEN "raised" ELSE "returned",
                !.history = IF ExistsRaises(hf) THEN EmptyHistory
                            ELSE load_access_history(hf)]
  /\ UNCHANGED <<engineVars, watchVars, save, launch, probe, otherVars>>

\* ------------------------------------------------------- the watcher, timed
\* The path of start_watching's watch_paths an event for the name comes from.
WatchPath(name) ==
  CASE name[1] = "HEAD" -> "HEAD"
    [] name[1] = "index" -> "index"
    [] OTHER -> "refs/heads"

\* The history of r after ev.
Observe(o, timer, ev) ==
  IF Ignored(ev) THEN o
  ELSE [o EXCEPT !.events = @ + 1, !.since = 0,
                 !.paths = @ \cup {WatchPath(ev.name)},
                 !.close = @ /\ (o.events = 0 \/ o.since < WindowTicks),
                 !.restarted = @ \/ (timer.alive /\ 0 < o.since /\ o.since < WindowTicks),
                 !.lock_started = @ \/ HasLockSuffix(ev.name)]

\* One handler, and so one timer, for all the repositories.
WatchEventShared(r, ev) ==
  /\ obs[r].events < MaxEvents
  /\ mounted
  /\ debounce_timer' = [q \in Repos |-> on_any_event(debounce_timer[q], ev)]
  /\ obs' = [obs EXCEPT ![r] = Observe(@, debounce_timer[r], ev)]
  /\ UNCHANGED <<engineVars, save, callVars>>

\* start_watching schedules the one handler of r on each of its watch paths:
\* an event under any of them comes to on_any_event of that handler.
WatchEvent(r, ev) ==
  /\ obs[r].events < MaxEvents
  /\ OnAnyEvent(r, ev)
  /\ obs' = [obs EXCEPT ![r] = Observe(@, debounce_timer[r], ev)]
  /\ UNCHANGED <<save, callVars>>

\* One clock tick passes: no running timer is due.
Tick ==
  /\ \E r \in Repos :
       debounce_timer[r].alive \/ (obs[r].events > 0 /\ obs[r].since < WindowTicks)
  /\ \A r \in Repos : debounce_timer[r].alive => debounce_timer[r].left > 0
  /\ debounce_timer' =
       [r \in Repos |-> IF debounce_timer[r].alive
                        THEN [debounce_timer[r] EXCEPT !.left = @ - 1]
                        ELSE debounce_timer[r]]
  /\ obs' = [r \in Repos |->
               IF obs[r].events > 0 /\ obs[r].since < WindowTicks
               THEN [obs[r] EXCEPT !.since = @ + 1] ELSE obs[r]]
  /\ UNCHANGED <<engineVars, save, callVars>>

\* The timer of r is due and runs.
WatchFire(r) ==
  /\ debounce_timer[r].left = 0
  /\ TimerFires(r)
  /\ obs' = [obs EXCEPT ![r].signals = @ + 1, ![r].requests = @ + 1]
  /\ UNCHANGED <<save, callVars>>

\* ------------------------------------------------------------- on_unmount
\* on_unmount: the observer is stopped and joined, so no event comes to a
\* handler any more; the handlers' timers are left as they are.
OnUnmount ==
  /\ mounted
  /\ ~unmounted
  /\ unmounted' = TRUE
  /\ UNCHANGED <<engineVars, watchVars, save, load, launch, probe, scan, answers,
                 finished, late_signal, held>>

\* The timer of r is due and runs after on_unmount: _flag_needs_refresh sets
\* the flag and calls call_from_thread, which delivers the request or raises
\* in the timer's thread, as the application's shutdown has it.
LateFire(r) ==
  /\ unmounted
  /\ debounce_timer[r].left = 0
  /\ TimerFires(r)
  /\ \E delivered \in BOOLEAN :
       obs' = [obs EXCEPT ![r].signals = @ + 1,
                          ![r].requests = IF delivered THEN @ + 1 ELSE @]
  /\ UNCHANGED <<save, callVars>>

\* ------------------------------------------------------ the specification
\* The application with time abstracted: a started Timer runs at some moment.
Next ==
  \/ OnMount /\ UNCHANGED <<obs, save, callVars>>
  \/ ActionRefresh /\ UNCHANGED <<obs, save, callVars>>
  \/ \E r \in Repos : RowHighlighted(r) /\ UNCHANGED <<obs, save, callVars>>
  \/ \E b \in Batches, r \in Repos : WorkerStep(b, r) /\ UNCHANGED <<obs, save, callVars>>
  \/ \E b \in Batches, r \in Repos : WorkerFault(b, r) /\ UNCHANGED <<obs, save, callVars>>
  \/ \E b \in Batches : IntegrateStep(b) /\ UNCHANGED <<obs, save, callVars>>
  \/ \E b \in Batches : Persist(b) /\ UNCHANGED <<obs, save, callVars>>
  \/ \E r \in Repos, ev \in Events : OnAnyEvent(r, ev) /\ UNCHANGED <<obs, save, callVars>>
  \/ \E r \in Repos : TimerFires(r) /\ UNCHANGED <<obs, save, callVars>>

Spec == Init /\ [][Next]_vars

\* The watcher with the clock; the batches stand still.
WatchNext ==
  \/ OnMount /\ UNCHANGED <<obs, save, callVars>>
  \/ \E r \in Repos, ev \in Events : WatchEvent(r, ev)
  \/ Tick
  \/ \E r \in Repos : WatchFire(r)

WatchSpec == Init /\ [][WatchNext]_vars

\* The watcher with the clock, up to and after on_unmount.
UnmountNext ==
  \/ OnMount /\ UNCHANGED <<obs, save, callVars>>
  \/ \E r \in Repos, ev \in Events : ~unmounted /\ WatchEvent(r, ev)
  \/ Tick
  \/ \E r \in Repos : ~unmounted /\ WatchFire(r)
  \/ OnUnmount
  \/ \E r \in Repos : LateFire(r)

UnmountSpec == Init /\ [][UnmountNext]_vars

\* The calls of atomic_write_json.
SaveNext ==
  \/ SaveCall
  \/ SaveStep
  \/ SaveRaise
  \/ SaveCrash

SaveSpec == Init /\ [][SaveNext]_vars

\* The launches of the tool from the table; the batches stand still.
LaunchNext ==
  \/ OnMount /\ UNCHANGED <<obs, save, callVars>>
  \/ \E r \in Repos : RunLazygit(r)
  \/ SaveStep
  \/ SaveRaise
  \/ LaunchTool
  \/ LaunchEscapes

LaunchSpec == Init /\ [][LaunchNext]_vars

\* One call of a probe, over every outcome of its invocations.
ProbeNext ==
  \/ \E o \in RunOutcomes : ProbeCommit(o)
  \/ \E o \in RunOutcomes : ProbeBranch(o)
  \/ \E o \in RunOutcomes : ProbeStatus(o)
  \/ \E run \in AheadBehindRuns : ProbeAheadBehind(run)

ProbeSpec == Init /\ [][ProbeNext]_vars

\* One scan, over the base directories, histories and caches it can be given.
ScanNext ==
  \E ch \in [Repos -> ChildKinds], h \in Histories, c \in CacheMappings :
    ScanBase(ch, h, c)

ScanSpec == Init /\ [][ScanNext]_vars

\* The answers that differ from the usual ones in at most n probes.
RECURSIVE AnswersWithin(_)
AnswersWithin(n) ==
  IF n = 0 THEN {UsualAnswers}
  ELSE LET less == AnswersWithin(n - 1) IN
       less \cup UNION {{[a EXCEPT ![r][p] = res] :
                            a \in less, r \in Repos, res \in ProbeResults(p)} :
                          p \in {"commit", "branch", "status", "ahead_behind"}}

\* The bulk refresh run at mount and run again, over repositories that do not
\* change: every probe of a repository returns the same result each time.
StableInit == \E a \in AnswersWithin(MaxUnusual) : InitOver(0, a)

StableNext ==
  \/ OnMount /\ UNCHANGED <<obs, save, callVars>>
  \/ ReloadMetadata /\ UNCHANGED <<obs, save, callVars>>
  \/ \E b \in Batches, r \in Repos : AnsweredStep(b, r)
  \/ \E b \in Batches : IntegrateStep(b) /\ UNCHANGED <<obs, save, callVars>>
  \/ \E b \in Batches : Persist(b) /\ UNCHANGED <<obs, save, callVars>>

StableSpec == StableInit /\ [][StableNext]_vars

\* The application with the history of the signals that come during a
\* targeted refresh; every probe returns its usual result.
SignalNext ==
  \/ OnMount /\ Served
  \/ ActionRefresh /\ Served
  \/ \E r \in Repos : RowHighlighted(r) /\ Served
  \/ \E b \in Batches, r \in Repos : WorkerStep(b, r) /\ UNCHANGED <<obs, save, callVars>>
  \/ \E b \in Batches : IntegrateStep(b) /\ UNCHANGED <<obs, save, callVars>>
  \/ \E b \in Batches : Persist(b) /\ UNCHANGED <<obs, save, callVars>>
  \/ \E r \in Repos, ev \in Events : OnAnyEvent(r, ev) /\ UNCHANGED <<obs, save, callVars>>
  \/ \E r \in Repos : SignalFires(r)

SignalSpec == InitWith(MaxUnusual) /\ [][SignalNext]_vars

\* The application with the worker's assignments of the ahead/behind result
\* taken one at a time.
StoreNext ==
  \/ OnMount /\ UNCHANGED <<obs, save, callVars>>
  \/ \E r \in Repos : RowHighlighted(r) /\ UNCHANGED <<obs, save, callVars>>
  \/ \E b \in Batches, r \in Repos : EarlyStep(b, r)
  \/ \E b \in Batches, r \in Repos : ProbeReturns(b, r)
  \/ \E b \in Batches, r \in Repos : AssignStep(b, r)
  \/ \E r \in Repos, ev \in Events : OnAnyEvent(r, ev) /\ UNCHANGED <<obs, save, callVars>>
  \/ \E r \in Repos : TimerFires(r) /\ UNCHANGED <<obs, save, callVars>>

StoreSpec == Init /\ [][StoreNext]_vars

\* The calls of the load functions, over the files they can find.
LoadNext ==
  \/ \E cf \in CacheFiles : LoadMetadataCache(cf)
  \/ \E hf \in HistoryFiles : LoadAccessHistory(hf)
  \/ \E m \in CacheMappings : SaveThenLoad(m)

LoadSpec == Init /\ [][LoadNext]_vars

\* The application under fair scheduling: every worker thread, the event loop
\* and every started timer get to run; the user and the file system owe nothing.
\* Every probe returns its usual result.
FairInit == InitWith(MaxUnusual)

FairNext ==
  \/ OnMount /\ UNCHANGED <<obs, save, callVars>>
  \/ ActionRefresh /\ UNCHANGED <<obs, save, callVars>>
  \/ \E r \in Repos : RowHighlighted(r) /\ UNCHANGED <<obs, save, callVars>>
  \/ \E b \in Batches, r \in Repos : WorkerStep(b, r) /\ UNCHANGED <<obs, save, callVars>>
  \/ \E b \in Batches : IntegrateStep(b) /\ UNCHANGED <<obs, save, callVars>>
  \/ \E b \in Batches : Persist(b) /\ UNCHANGED <<obs, save, callVars>>
  \/ \E r \in Repos, ev \in Events : OnAnyEvent(r, ev) /\ UNCHANGED <<obs, save, callVars>>
  \/ \E r \in Repos : TimerFires(r) /\ UNCHANGED <<obs, save, callVars>>

Fairness ==
  /\ WF_vars(OnMount /\ UNCHANGED <<obs, save, callVars>>)
  /\ \A b \in Batches, r \in Repos :
       WF_vars(WorkerStep(b, r) /\ UNCHANGED <<obs, save, callVars>>)
  /\ \A b \in Batches : WF_vars(IntegrateStep(b) /\ UNCHANGED <<obs, save, callVars>>)
  /\ \A b \in Batches : WF_vars(Persist(b) /\ UNCHANGED <<obs, save, callVars>>)
  /\ \A r \in Repos : WF_vars(TimerFires(r) /\ UNCHANGED <<obs, save, callVars>>)

FairSpec == FairInit /\ [][FairNext]_vars /\ Fairness

\* ------------------------------------------------------------- the claims
\* The batches whose probe-bundle of r is still running.
InFlight(r) == {b \in Batches : wpc[b][r] \in Running}
Ended(b) == batch[b].phase \in {"done", "failed"}
\* The loop of b after gather has done its turn for r.
Integrated(b, r) ==
  \E i \in 1..batch[b].idx : MemberSeq(b)[i] = r
EntryOf(repo) ==
  CacheEntry(repo.branch, repo.status, repo.ahead, repo.behind,
             repo.has_upstream, repo.last_commit)

\* C1: no repository ever has two probe-bundles in flight at the same time.
C1_NoTwoBundlesInFlight == \A r \in Repos : Cardinality(InFlight(r)) <= 1

\* C2: the Repository fields and the cache mapping are written by the
\* orchestrating context only, never by a worker thread.
C2_OnlyOrchestratorWrites ==
  \A w \in writers : w[2] \in {"repository", "cache"} => w[1] = "main"

\* C3: the timer thread never writes the dirty flag itself.
C3_TimerThreadDoesNotWriteDirty == <<"timer", "needs_refresh">> \notin writers

\* C4: the qualifying events of a repository, each less than one window after
\* the one before, give one dirty signal and one repaint request: none while
\* the timer runs, one when it has run.
C4_DebounceCollapse ==
  \A r \in Repos :
    (obs[r].events >= 1 /\ obs[r].close) =>
      /\ obs[r].signals <= 1
      /\ obs[r].requests = obs[r].signals
      /\ (obs[r].signals = 1) = ~debounce_timer[r].alive

C4_Witness ==
  \E r \in Repos :
    /\ obs[r].events >= 2 /\ obs[r].close
    /\ obs[r].signals = 1 /\ obs[r].requests = 1
    /\ ~debounce_timer[r].alive

\* C5: a dirty signal is produced only when a full window has passed since
\* the last qualifying event of the repository, so an event that restarts the
\* timer leaves the burst before it without a signal.
C5_SignalOneWindowAfterLastEvent ==
  [][\A r \in Repos :
       obs'[r].signals > obs[r].signals => obs[r].since = WindowTicks]_vars

C5_Witness ==
  \E r \in Repos :
    /\ obs[r].restarted /\ obs[r].events = 2
    /\ obs[r].signals = 1 /\ ~debounce_timer[r].alive

\* C6: a targeted batch leaves the dirty flag set for a repository whose
\* bundle raised an unexpected fault.
C6_FaultKeepsDirty ==
  \A b \in Batches :
    (batch[b].kind = "targeted" /\ Ended(b)) =>
      \A r \in batch[b].members : wpc[b][r] = "fault" => repos[r].needs_refresh

MetaFields == {"last_commit", "branch", "status", "ahead", "behind", "has_upstream"}
FieldsOf(pc) ==
  CASE pc = "commit" -> {"last_commit"}
    [] pc = "branch" -> {"branch"}
    [] pc = "status" -> {"status"}
    [] pc = "ahead_behind" -> {"ahead", "behind", "has_upstream"}
    [] OTHER -> {}

C8_ErrorIsolation ==
  /\ [](\A b \in Batches :
          Ended(b) => \A r \in batch[b].members :
                        /\ wpc[b][r] \in {"done", "fault"}
                        /\ metadata_cache[r] # NoEntry)
  /\ [][\A b \in Batches, r \in Repos :
          (wpc[b][r] \in Running /\ wpc'[b][r] \notin {wpc[b][r], "fault"}) =>
            /\ wpc'[b][r] = NextPc(wpc[b][r])
            /\ \A f \in MetaFields \ FieldsOf(wpc[b][r]) : repos'[r][f] = repos[r][f]
            /\ \A q \in Repos \ {r} : repos'[q] = repos[q]
            /\ \A c \in Batches, q \in Repos :
                 <<c, q>> # <<b, r>> => wpc'[c][q] = wpc[c][q]
            /\ batch' = batch]_vars

C8_Witness ==
  \E b \in Batches :
    /\ batch[b].phase = "done" /\ batch[b].members = Repos
    /\ repos[RepoOrder[1]].has_error
    /\ repos[RepoOrder[1]].branch = None
    /\ repos[RepoOrder[1]].last_commit # None
    /\ repos[RepoOrder[1]].status # None
    /\ repos[RepoOrder[1]].has_upstream = Some(TRUE)
    /\ ~repos[RepoOrder[2]].has_error
    /\ repos[RepoOrder[2]].branch # None
    /\ \A r \in Repos : metadata_cache[r] = EntryOf(repos[r])

\* C9: a batch that has ended has requested exactly one repaint, and every
\* one of its bundles had finished.
C9_OneRepaintPerBatch ==
  \A b \in Batches :
    Ended(b) =>
      /\ batch[b].repaints = 1
      /\ \A r \in batch[b].members : wpc[b][r] \in {"done", "fault"}

\* C10: at every step of a save, and after a crash at any step, the
\* destination is the complete previous document or the complete new one.
C10_AtomicSave ==
  /\ save.dest = save.prev \/ save.dest = CompleteFile(save.data)
  /\ save.dest.exists => save.dest.len = DocLen

C10_Witness ==
  /\ save.pc = "crashed"
  /\ save.prev.exists /\ save.dest = save.prev
  /\ save.temp.exists /\ save.temp.len < DocLen /\ save.temp.data # save.dest.data

C12_LoadNeverRaises ==
  /\ load.cache_pc # "raised"
  /\ load.history_pc # "raised"
  /\ (load.cache_pc = "returned" /\ load.cache_file.kind # "document") =>
       load.cache = EmptyCache
  /\ (load.history_pc = "returned" /\ load.history_file.kind # "document") =>
       load.history = EmptyHistory

\* C13: no operation lets an exception escape and stop the process; here,
\* recording an access before the tool is launched.
C13_NoExceptionEscapes == launch.pc # "escaped"

\* C14: a probe never returns a value together with the error flag: its
\* result is (value, no error), (no value, no error) or (no value, error).
C14_NoValueWithError ==
  probe.name # "none" => (probe.result.has_error => probe.result.value = None)

C14_Witness ==
  /\ probe.name = "ahead_behind"
  /\ probe.run.branch = "out" /\ probe.run.verify = "out" /\ probe.run.count = "fail"
  /\ probe.result.has_error /\ probe.result.value = None

\* The lookups of the remote and of the merge target that were issued.
RemoteMissing == probe.run.remote = "fail"
MergeMissing == ~Raises(probe.run.remote) /\ probe.run.merge = "fail"
SoftAbsence ==
  /\ ~probe.result.has_error
  /\ probe.result.value = Some(AheadBehindInfo(None, None, Some(FALSE)))

\* C16 as claimed: when the remote lookup or the merge lookup exits non-zero,
\* the ahead/behind probe yields soft-absence.
C16_NoUpstreamIsSoftAbsence ==
  (probe.name = "ahead_behind" /\ probe.run.branch = "out"
     /\ (RemoteMissing \/ MergeMissing)) => SoftAbsence

\* C16 as amended: when both lookups complete and one of them exits non-zero,
\* the ahead/behind probe yields soft-absence.
C16_CompletedLookupsSoftAbsence ==
  (probe.name = "ahead_behind" /\ probe.run.branch = "out"
     /\ ~Raises(probe.run.remote) /\ ~Raises(probe.run.merge)
     /\ (probe.run.remote = "fail" \/ probe.run.merge = "fail")) => SoftAbsence

C16_Witness ==
  /\ probe.name = "ahead_behind" /\ probe.run.branch = "out"
  /\ probe.run.remote = "out" /\ probe.run.merge = "fail"
  /\ SoftAbsence /\ probe.result.reported = 1

\* C17: the error callback is called once when a probe returns hard-error
\* and not at all when it returns success or soft-absence.
C17_CallbackOncePerHardError ==
  probe.name # "none" =>
    probe.result.reported = (IF probe.result.has_error THEN 1 ELSE 0)

\* Every invocation of the probe finds the client binary absent.
BinaryAbsent ==
  IF probe.name = "ahead_behind"
  THEN \A f \in DOMAIN probe.run : probe.run[f] = "exc"
  ELSE probe.name # "none" /\ probe.outcome = "exc"

\* C18: with the client binary absent, every probe returns hard-error.
C18_AbsentBinaryIsHardError ==
  BinaryAbsent => (probe.result.has_error /\ probe.result.value = None)

\* C15: when a bundle completes, the error flag of its repository is the OR
\* of the error flags its own four probes returned.
C15_AggregateIsOrOfProbes ==
  [][\A b \in Batches, r \in Repos :
       (wpc[b][r] \in Running /\ wpc'[b][r] = "done") =>
         repos'[r].has_error = berr'[b][r]]_vars

\* C19: an event for a name with the lock-file suffix never starts or
\* restarts the debounce timer, so no dirty signal comes of it.
C19_LockEventsIgnored == \A r \in Repos : ~obs[r].lock_started

\* C20: a step of a targeted batch leaves every repository outside its subset
\* as it was: the Repository fields, the dirty flag and the cache entry.
C20_TargetedFrame ==
  [][\A b \in Batches :
       (batch'[b].kind = "targeted" /\ (batch'[b] # batch[b] \/ wpc'[b] # wpc[b])) =>
         \A q \in Repos \ batch'[b].members :
           repos'[q] = repos[q] /\ metadata_cache'[q] = metadata_cache[q]]_vars

C20_Witness ==
  \E b \in Batches :
    /\ batch[b].kind = "targeted" /\ batch[b].phase = "done"
    /\ batch[b].members = {RepoOrder[1]}
    /\ repos[RepoOrder[2]].needs_refresh
    /\ metadata_cache[RepoOrder[1]] # NoEntry
    /\ metadata_cache[RepoOrder[2]] = NoEntry

\* The probe returned hard-error: no value, the error flag set.
HardError == probe.result.has_error /\ probe.result.value = None

\* C24: the last-commit-time probe returns hard-error when the client exits
\* non-zero and when it exits zero with no output.
C24_CommitEmptyOutputIsHardError ==
  (probe.name = "commit" /\ probe.outcome \in {"fail", "empty"}) => HardError

\* C25: the branch probe returns hard-error when the client exits non-zero
\* and when it exits zero with empty output.
C25_BranchEmptyOutputIsHardError ==
  (probe.name = "branch" /\ probe.outcome \in {"fail", "empty"}) => HardError

\* The upstream reference was verified: the count was issued.
UpstreamVerified == probe.name = "ahead_behind" /\ "count" \in probe.issued

\* C26: once the upstream is verified, the count gives success for a zero
\* exit with two numbers and hard-error for every other outcome.
C26_CountIsSuccessOrHardError ==
  UpstreamVerified =>
    IF probe.run.count = "out"
    THEN /\ ~probe.result.has_error
         /\ probe.result.value =
              Some(AheadBehindInfo(Some(AheadCount), Some(BehindCount), Some(TRUE)))
    ELSE HardError

C26_Witness ==
  /\ UpstreamVerified /\ probe.run.verify = "out"
  /\ probe.run.count = "shape" /\ HardError

\* C27: the lookups are issued only when the branch is resolved, the
\* verification only when both lookups exited zero, the count only when the
\* verification exited zero, each after the step before it; an upstream
\* that does not verify ends the probe as soft-absence.
C27_StepsInOrder ==
  probe.name = "ahead_behind" =>
    /\ "branch" \in probe.issued
    /\ (probe.issued \cap {"remote", "merge"} # {}) => probe.run.branch = "out"
    /\ "merge" \in probe.issued => "remote" \in probe.issued
    /\ "verify" \in probe.issued =>
         /\ {"remote", "merge"} \subseteq probe.issued
         /\ ExitZero(probe.run.remote) /\ ExitZero(probe.run.merge)
    /\ "count" \in probe.issued =>
         "verify" \in probe.issued /\ ExitZero(probe.run.verify)
    /\ ("verify" \in probe.issued /\ probe.run.verify = "fail") => SoftAbsence

C27_Witness ==
  /\ probe.name = "ahead_behind"
  /\ probe.issued = {"branch", "remote", "merge", "verify"}
  /\ probe.run.verify = "fail" /\ SoftAbsence

\* C21: the mapping loaded after a save is the mapping that was saved, for
\* every path and every field, counts of 0, has_upstream false and absent
\* values included.
C21_SaveLoadRoundTrip == load.cache_pc = "reloaded" => load.cache = load.saved

C21_Witness ==
  /\ load.cache_pc = "reloaded" /\ load.cache = load.saved
  /\ load.saved[RepoOrder[1]] # NoEntry
  /\ load.saved[RepoOrder[1]].ahead = Some(0)
  /\ load.saved[RepoOrder[1]].last_commit # None
  /\ load.saved[RepoOrder[2]] # NoEntry
  /\ load.saved[RepoOrder[2]].has_upstream = Some(FALSE)
  /\ load.saved[RepoOrder[2]].ahead = None

\* C29: a dirty signal that comes while a targeted refresh of the repository
\* is in flight, after its probes have run, is not lost: the repository stays
\* dirty unless a bundle of it is started again or still has probes to run.
C29_DirtySignalNotLost ==
  \A r \in Repos :
    late_signal[r] => (repos[r].needs_refresh \/ InFlight(r) # {})

\* The Repository a bundle with the answers a leaves, started from repo.
BundleOf(repo, a) ==
  FetchStep(
    FetchStep(
      FetchStep(
        FetchStep(FetchStep(repo, "start", UsualResult("start")), "commit", a.commit),
        "branch", a.branch),
      "status", a.status),
    "ahead_behind", a.ahead_behind)

\* C22: once a bulk refresh of unchanged repositories has ended, another
\* bulk refresh of them leaves every cache entry as it is.
C22_SecondRefreshChangesNothing ==
  [][(\E c \in Batches : batch[c].kind = "bulk" /\ Ended(c)) =>
       metadata_cache' = metadata_cache]_vars

C22_Witness ==
  /\ \A b \in 1..2 : batch[b].kind = "bulk" /\ batch[b].phase = "done"
  /\ Len(finished[2]) = Len(RepoOrder)
  /\ answers # UsualAnswers
  /\ \A r \in Repos : metadata_cache[r] = EntryOf(repos[r])

\* C23: the cache mapping a batch leaves is the one its bundles' results
\* determine, whatever the order the bundles completed in; merging a result
\* again changes nothing, and merges of two repositories commute.
C23_MergeOrderIndependent ==
  /\ \A b \in Batches :
       Ended(b) =>
         \A r \in batch[b].members :
           metadata_cache[r] = EntryOf(BundleOf(repos[r], answers[r]))
  /\ \A r \in Repos :
       LET once == save_repo_to_cache(metadata_cache, r, repos[r]) IN
         save_repo_to_cache(once, r, repos[r]) = once
  /\ \A r \in Repos, q \in Repos :
       r # q =>
         save_repo_to_cache(save_repo_to_cache(metadata_cache, r, repos[r]), q, repos[q])
           = save_repo_to_cache(save_repo_to_cache(metadata_cache, q, repos[q]), r, repos[r])

C23_Witness ==
  \E b \in Batches :
    /\ batch[b].phase = "done"
    /\ finished[b] = <<RepoOrder[2], RepoOrder[1]>>
    /\ answers[RepoOrder[1]] # answers[RepoOrder[2]]
    /\ \A r \in Repos : metadata_cache[r] = EntryOf(BundleOf(repos[r], answers[r]))

C30_EntryFromOneBundle ==
  [][\A b \in Batches :
       (Gathered(b) /\ batch'[b].idx = batch[b].idx + 1
          /\ wpc[b][MemberSeq(b)[batch[b].idx + 1]] = "done") =>
         \A c \in Batches \ {b} :
           wpc[c][MemberSeq(b)[batch[b].idx + 1]]
             \notin {"commit", "branch", "status", "ahead_behind"}]_vars

\* No batch is between the start of its workers and the end of its save.
Quiet == \A c \in Batches : batch[c].phase # "gather"

\* The cache entries of the repositories of b are their current fields and
\* the document on disk is the cache mapping.
Consistent(b) ==
  /\ \A r \in batch[b].members : metadata_cache[r] = EntryOf(repos[r])
  /\ disk = File("document", Serialize(metadata_cache))

\* C31: when a batch ends with its save done and no other batch is running,
\* the cache entry of each of its repositories equals the repository's
\* fields and the document on disk equals the cache mapping; this stays so
\* as long as no batch runs.
C31_CacheAndDiskAfterBatch ==
  [][\A b \in Batches :
       /\ (batch[b].phase # "done" /\ batch'[b].phase = "done" /\ Quiet') => Consistent(b)'
       /\ (batch[b].phase = "done" /\ Quiet /\ Quiet' /\ Consistent(b)) => Consistent(b)']_vars

C31_Witness ==
  /\ Quiet
  /\ batch[1].kind = "bulk" /\ batch[1].phase = "failed"
  /\ batch[2].kind = "targeted" /\ batch[2].phase = "done"
  /\ Consistent(2)
  /\ \E r \in batch[2].members : repos[r].has_error /\ metadata_cache[r] # NoEntry

\* has_upstream is true exactly when both counts are present, and when it is
\* false both are absent.
Coherent(repo) ==
  /\ (repo.has_upstream = Some(TRUE)) = (repo.ahead # None /\ repo.behind # None)
  /\ repo.has_upstream = Some(FALSE) => (repo.ahead = None /\ repo.behind = None)

\* C32: when a probe-bundle completes, the repository's has_upstream is true
\* exactly when both counts are present, both counts are absent when it is
\* false, and all three are unknown when the ahead/behind probe returned a
\* hard-error.
C32_UpstreamAndCountsCoherent ==
  [][\A b \in Batches, r \in Repos :
       (wpc[b][r] # "done" /\ wpc'[b][r] = "done") =>
         /\ Coherent(repos'[r])
         /\ held[b][r].res.has_error =>
              (repos'[r].has_upstream = None /\ repos'[r].ahead = None
                 /\ repos'[r].behind = None)]_vars

\* C33: the events of a repository come to its one timer whatever watched
\* path they are from, so a burst over several paths gives one dirty signal;
\* an event of a repository, or the run of its timer, leaves the timer, the
\* dirty flag and the signals of every other repository as they were.
C33_OneTimerPerRepository ==
  [][/\ \A r \in Repos :
          (Cardinality(obs'[r].paths) >= 2 /\ obs'[r].close) =>
            /\ obs'[r].signals <= 1
            /\ (obs'[r].signals = 1) = ~debounce_timer'[r].alive
     /\ \A r \in Repos, q \in Repos :
          (r # q /\ (obs'[r].events > obs[r].events \/ obs'[r].signals > obs[r].signals)) =>
            /\ debounce_timer'[q] = debounce_timer[q]
            /\ repos'[q] = repos[q]
            /\ obs'[q] = obs[q]]_vars

C33_Witness ==
  \E r \in Repos, q \in Repos :
    /\ r # q
    /\ obs[r].paths = {"HEAD", "refs/heads"} /\ obs[r].close
    /\ obs[r].signals = 1 /\ repos[r].needs_refresh /\ ~debounce_timer[r].alive
    /\ obs[q].events >= 1 /\ obs[q].signals = 0
    /\ debounce_timer[q].alive /\ debounce_timer[q].left < WindowTicks
    /\ ~repos[q].needs_refresh

\* C34: once on_unmount has stopped the watcher, no timer marks a repository
\* dirty or delivers a repaint request.
C34_NoSignalAfterUnmount ==
  [][unmounted =>
       \A r \in Repos :
         /\ repos'[r].needs_refresh = repos[r].needs_refresh
         /\ obs'[r].signals = obs[r].signals
         /\ obs'[r].requests = obs[r].requests]_vars

====
